---- MODULE Spec2Model ----
(***************************************************************************)
(* The experiment script code/experiments.py: the ESN-state cache, the     *)
(* trial loop over seeds, the aggregation of the per-metric lists, the     *)
(* wandb.log calls and the spreadsheet export; and load_dataset of         *)
(* dataset/data_loaders.py.                                                *)
(*                                                                         *)
(* The classes and functions the script imports (TorchModel,               *)
(* BayesianModel, HorseshoeSSVS, the autoguides, inference, run_esn) are   *)
(* collaborators whose code is elsewhere; they are modelled by the         *)
(* operators of the section "Collaborators".                               *)
(***************************************************************************)
EXTENDS Integers, Sequences, FiniteSets, TLC

VARIABLES
    config,        \* the resolved configuration (wandb.config)
    hyperparams,   \* ESN/configs/ESN_hyperparams.json
    device,        \* torch.device('cuda') or torch.device('cpu')
    default_tensor_type,   \* torch's global default tensor type
    backend,       \* behaviour of the inference backend (a collaborator)
    fs_dirs,       \* directories of the file system
    fs_files,      \* files under ./ESN/saved: path -> content
    pc,            \* statement the script executes next
    bundle,        \* Ytr, train_embedding, Yval, val_embedding, Yte, test_embedding
    s,             \* loop variable of "for s in range(config.seed)"
    rng,           \* the global random generator
    param_store,   \* pyro's global parameter store
    model,         \* the trial's model
    guide,         \* the trial's guide
    diagnostics,   \* the record inference returned last
    lists,         \* train_times, inf_times, ... : the per-metric lists
    agg,           \* m_time, s_time, ... : the aggregates
    wandb_log,     \* the calls wandb.log received, in order
    xlsx,          \* sheets this run wrote to results/results.xlsx
    error,         \* the exception that ended the run, if any
    trace,         \* history: statements of the current trial executed so far
    returned,      \* history: the diagnostics record of every trial
    run,           \* history: number of the run of the script
    computed,      \* history: per cache file, the run_esn calls that returned
    saved,         \* history: per cache file, the torch.save calls
    obtained       \* history: per cache file, the first run to obtain a bundle, and the bundle

vars == <<config, hyperparams, device, default_tensor_type, backend, fs_dirs,
          fs_files, pc, bundle, s, rng,
          param_store, model, guide, diagnostics, lists, agg, wandb_log, xlsx,
          error, trace, returned, run, computed, saved, obtained>>

(***************************************************************************)
(* Bounds                                                                  *)
(***************************************************************************)
\* largest config.seed (number of trials)
MaxSeed == 3
\* metric values are 0..MaxVal
MaxVal == 4
\* reservoir sizes are 1..MaxUnits
MaxUnits == 2
\* runs of the script in a sequence of runs
MaxRuns == 3
\* resolution of the fixed-point numbers that stand for numpy's floats
Scale == 1000

(***************************************************************************)
(* Vocabulary                                                              *)
(***************************************************************************)
\* The diagnostics keys in the order experiments.py reads them.
ExtractOrder ==
    << "train_time", "cal_error", "new_cal_error", "width", "new_width",
       "crps", "new_crps", "mse", "new_mse", "coverage", "new_coverage",
       "final_loss", "inference_time", "e_crps" >>

Keys == { ExtractOrder[i] : i \in DOMAIN ExtractOrder }

\* The keys read under an "if key in diagnostics.keys()" with "append(0)" as
\* the else branch.
Defaulted == { "final_loss", "inference_time", "e_crps" }

\* The list each key is appended to.
ListOf ==
    [ train_time     |-> "train_times",
      cal_error      |-> "cal_errors",
      new_cal_error  |-> "new_cal_errors",
      width          |-> "widths",
      new_width      |-> "new_widths",
      crps           |-> "crpss",
      new_crps       |-> "new_crpss",
      mse            |-> "mses",
      new_mse        |-> "new_mses",
      coverage       |-> "coverages",
      new_coverage   |-> "new_coverages",
      final_loss     |-> "losses",
      inference_time |-> "inf_times",
      e_crps         |-> "e_crpss" ]

ListNames == { ListOf[k] : k \in Keys }

\* train_times = [] ... coverages, new_coverages = [], []
EmptyLists == [ l \in ListNames |-> << >> ]

\* quantiles = [0, 0.005], then 0.025*(n+1) for n in range(39), then 0.995;
\* in thousandths.
Quantiles ==
    << 0, 5 >> \o [ n \in 1..39 |-> 25 * n ] \o << 995 >>

(***************************************************************************)
(* dataset/data_loaders.py                                                 *)
(***************************************************************************)
\* load_dataset(name): the series with its seasonality and forecast horizon,
\* or ValueError for a name that is neither "acea" nor "spain".
load_dataset(name) ==
    IF name = "acea"
    THEN [ raised |-> FALSE, data |-> "acea", seasonality |-> 24 * 7,
           forecast_horizon |-> 24 ]
    ELSE IF name = "spain"
    THEN [ raised |-> FALSE, data |-> "spain", seasonality |-> 7,
           forecast_horizon |-> 1 ]
    ELSE [ raised |-> TRUE, data |-> name, seasonality |-> 0,
           forecast_horizon |-> 0 ]

(***************************************************************************)
(* Collaborators                                                           *)
(***************************************************************************)
\* A tensor: its shape and where its values come from.
Tensor(rows, cols, data) == [ rows |-> rows, cols |-> cols, data |-> data ]

NoTensor == Tensor(0, 0, "none")

NoBundle ==
    [ Ytr |-> NoTensor, train_embedding |-> NoTensor, Yval |-> NoTensor,
      val_embedding |-> NoTensor, Yte |-> NoTensor, test_embedding |-> NoTensor ]

\* Within each split the targets have as many rows as the embeddings.
Aligned(b) ==
    /\ b.Ytr.rows = b.train_embedding.rows
    /\ b.Yval.rows = b.val_embedding.rows
    /\ b.Yte.rows = b.test_embedding.rows

\* run_esn(dataset, device, dim_reduction): loads the dataset and returns the
\* six aligned arrays; the same arrays for the same arguments.
run_esn(dataset, dim_reduction, units) ==
    LET d == load_dataset(dataset)
        cols == IF dim_reduction THEN 1 ELSE units
    IN  IF d.raised
        THEN [ raised |-> TRUE, value |-> NoBundle ]
        ELSE [ raised |-> FALSE,
               value  |->
                 [ Ytr             |-> Tensor(3, 1, d.data),
                   train_embedding |-> Tensor(3, cols, d.data),
                   Yval            |-> Tensor(1, 1, d.data),
                   val_embedding   |-> Tensor(1, cols, d.data),
                   Yte             |-> Tensor(1, 1, d.data),
                   test_embedding  |-> Tensor(1, cols, d.data) ] ]

\* A file at the cache path that no run of this script wrote: its train
\* targets have fewer rows than its train embeddings.
ForeignFile(units) ==
    << Tensor(2, 1, "foreign"), Tensor(3, units, "foreign"),
       Tensor(1, 1, "foreign"), Tensor(1, units, "foreign"),
       Tensor(1, 1, "foreign"), Tensor(1, units, "foreign") >>

\* The method names the inference dispatcher has a backend for.
BackendMethods == { "svi", "mcmc", "q_regr", "ssvs", "stub" }

\* The keys each backend puts into its diagnostics record.
NativeKeys(method) ==
    CASE method = "svi"               -> Keys
      [] method \in {"mcmc", "ssvs"}  -> Keys \ { "final_loss", "inference_time" }
      [] method = "q_regr"            -> Keys \ { "e_crps" }
      [] method = "stub"              -> { "train_time", "cal_error" }
      [] OTHER                        -> {}

\* pyro.param semantics: a name that is in the store keeps its value.
Register(store, names) ==
    store \cup { [ name |-> n, value |-> "init" ] :
                 n \in names \ { p.name : p \in store } }

NoObject == [ class |-> "None", quantiles |-> << >>, trial |-> -1,
              device |-> [ type |-> "none" ] ]

\* TorchModel(widths, activation, quantiles=None).to(device): a torch module
\* on the device; its weights are drawn from the global random generator.
TorchModel(quantiles, trial, st) ==
    [ object      |-> [ class |-> "TorchModel", quantiles |-> quantiles,
                        trial |-> trial, device |-> st.device ],
      rng         |-> [ st.rng EXCEPT !.draws = @ + 1 ],
      param_store |-> st.param_store ]

\* HorseshoeSSVS(in, out, type, device) and BayesianModel(torch_model, config,
\* device): pyro models; their named parameters go to the global store.
PyroModel(class, trial, st) ==
    [ object      |-> [ class |-> class, quantiles |-> << >>, trial |-> trial,
                        device |-> st.device ],
      rng         |-> st.rng,
      param_store |-> Register(st.param_store, { "model.weight" }) ]

\* Where a tensor of the default tensor type lives.
DeviceOf(tensor_type) ==
    [ type |-> IF tensor_type = "torch.cuda.FloatTensor" THEN "cuda" ELSE "cpu" ]

\* AutoMultivariateNormal(model, ...) and AutoLowRankMultivariateNormal(model,
\* ..., rank): the guide's named parameters are tensors of the default tensor
\* type and go to the global store.
AutoGuide(class, trial, st) ==
    [ object      |-> [ class |-> class, quantiles |-> << >>, trial |-> trial,
                        device |-> DeviceOf(st.default_tensor_type) ],
      rng         |-> st.rng,
      param_store |-> Register(st.param_store, { "guide.loc" }) ]

\* What a backend sees when it is called.
Observed ==
    [ rng |-> rng, param_store |-> param_store,
      default_tensor_type |-> default_tensor_type, model |-> model, guide |-> guide ]

KeyIndex(k) == CHOOSE i \in DOMAIN ExtractOrder : ExtractOrder[i] = k

\* Parameters in the store that hold a fitted value.
Fitted(store) == { p \in store : p.value # "init" }

NoError == [ type |-> "none", detail |-> "", trial |-> -1 ]

\* inference(config, model, guide, X_train, ..., quantiles): dispatches on
\* config.inference. An unknown method is rejected; the backend may raise; a
\* backend that returns is a function of what it observes: it fits the
\* parameters of the store and consumes random draws.
inference(cfg, b, obs) ==
    IF cfg.inference \notin BackendMethods
    THEN [ raised |-> TRUE,
           error  |-> [ type |-> "ValueError", detail |-> cfg.inference,
                        trial |-> obs.rng.seed ],
           diagnostics |-> [ k \in {} |-> 0 ],
           rng |-> obs.rng, param_store |-> obs.param_store ]
    ELSE IF b.failAt = obs.rng.seed
    THEN [ raised |-> TRUE,
           error  |-> [ type |-> "BackendError", detail |-> cfg.inference,
                        trial |-> obs.rng.seed ],
           diagnostics |-> [ k \in {} |-> 0 ],
           rng |-> obs.rng, param_store |-> obs.param_store ]
    ELSE LET x == b.base + b.slope * obs.rng.seed
                  + Cardinality(Fitted(obs.param_store))
         IN  [ raised |-> FALSE,
               error  |-> NoError,
               diagnostics |->
                 [ k \in NativeKeys(cfg.inference) |->
                     (x + KeyIndex(k) - 1) % (MaxVal + 1) ],
               rng |-> [ obs.rng EXCEPT !.draws = @ + 1 ],
               param_store |->
                 { [ name |-> n, value |-> "fit" ] :
                   n \in { p.name : p \in obs.param_store }
                         \cup { "model.weight", "guide.loc" } } ]

(***************************************************************************)
(* code/experiments.py: Save/Load ESN state (lines 48-58)                  *)
(***************************************************************************)
\* f'{config.dim_reduction}' of a bool
FormatBool(b) == IF b THEN "True" ELSE "False"

\* save_path = './ESN/saved/' + f'{config.dataset}/dim_red_{config.dim_reduction}/'
save_path(cfg) == << "ESN", "saved", cfg.dataset, FormatBool(cfg.dim_reduction) >>

\* file_path = save_path + f'esn_states_{n_internal_units}units.pt'
file_path(cfg, hp) == [ dir |-> save_path(cfg), units |-> hp.n_internal_units ]

\* Path(save_path).mkdir(parents=True, exist_ok=True)
mkdir_parents(dirs, path) == dirs \cup { SubSeq(path, 1, n) : n \in 1..Len(path) }

\* Mutant of isfile: the file is never found, every run computes.
isfileNever(files, path) == FALSE

\* os.path.isfile(file_path)
isfile(files, path) == path \in DOMAIN files

\* torch.save([Ytr, train_embedding, Yval, val_embedding, Yte, test_embedding], file_path)
torch_save(b) ==
    << b.Ytr, b.train_embedding, b.Yval, b.val_embedding, b.Yte, b.test_embedding >>

\* Mutant of torch_load: each split is cut to the rows its targets and its
\* embeddings both have.
torch_loadTruncated(content) ==
    LET Min(a, b) == IF a < b THEN a ELSE b
        cut(x, y) == [ x EXCEPT !.rows = Min(x.rows, y.rows) ]
    IN  [ Ytr  |-> cut(content[1], content[2]), train_embedding |-> cut(content[2], content[1]),
          Yval |-> cut(content[3], content[4]), val_embedding   |-> cut(content[4], content[3]),
          Yte  |-> cut(content[5], content[6]), test_embedding  |-> cut(content[6], content[5]) ]

\* Ytr, train_embedding, Yval, val_embedding, Yte, test_embedding = torch.load(file_path, ...)
torch_load(content) ==
    [ Ytr  |-> content[1], train_embedding |-> content[2],
      Yval |-> content[3], val_embedding   |-> content[4],
      Yte  |-> content[5], test_embedding  |-> content[6] ]

\* Value of a history function at a path it may not hold yet.
CountAt(f, path) == IF path \in DOMAIN f THEN f[path] ELSE 0

Mkdir ==
    /\ pc = "start"
    /\ fs_dirs' = mkdir_parents(fs_dirs, save_path(config))
    /\ pc' = "cache"
    /\ UNCHANGED << config, hyperparams, device, default_tensor_type,
                    backend, fs_files, bundle, s, rng,
                    param_store, model, guide, diagnostics, lists, agg,
                    wandb_log, xlsx, error, trace, returned, run, computed,
                    saved, obtained >>

LoadOrCompute ==
    /\ pc = "cache"
    /\ LET path == file_path(config, hyperparams)
           r    == run_esn(config.dataset, config.dim_reduction,
                           hyperparams.n_internal_units)
           got(b) == IF path \in DOMAIN obtained THEN obtained
                     ELSE (path :> [ bundle |-> b, run |-> run ]) @@ obtained
       IN  IF isfile(fs_files, path)
           THEN /\ bundle' = torch_load(fs_files[path])
                /\ obtained' = got(bundle')
                /\ pc' = "for"
                /\ UNCHANGED << fs_files, error, computed, saved >>
           ELSE IF r.raised
           THEN /\ error' = [ type |-> "ValueError", detail |-> config.dataset,
                              trial |-> -1 ]
                /\ pc' = "aborted"
                /\ UNCHANGED << fs_files, bundle, computed, saved, obtained >>
           ELSE IF path.dir \notin fs_dirs
           THEN /\ bundle' = r.value
                /\ computed' = (path :> CountAt(computed, path) + 1) @@ computed
                /\ error' = [ type |-> "FileNotFoundError", detail |-> "file_path",
                              trial |-> -1 ]
                /\ pc' = "aborted"
                /\ UNCHANGED << fs_files, saved, obtained >>
           ELSE /\ bundle' = r.value
                /\ computed' = (path :> CountAt(computed, path) + 1) @@ computed
                /\ fs_files' = (path :> torch_save(r.value)) @@ fs_files
                /\ saved' = (path :> CountAt(saved, path) + 1) @@ saved
                /\ obtained' = got(bundle')
                /\ pc' = "for"
                /\ UNCHANGED error
    /\ UNCHANGED << config, hyperparams, device, default_tensor_type,
                    backend, fs_dirs, s, rng, param_store,
                    model, guide, diagnostics, lists, agg, wandb_log, xlsx,
                    trace, returned, run >>

(***************************************************************************)
(* code/experiments.py: the trial loop (lines 78-134)                      *)
(***************************************************************************)
\* pyro.set_rng_seed(s)
set_rng_seed(seed) == [ seed |-> seed, draws |-> 0 ]

\* Mutant of build_model: BayesianModel for the known Bayesian methods only,
\* no model for any other name.
build_modelKnownOnly(cfg, trial, st) ==
    LET torch_model == TorchModel(<< >>, trial, st)
        st1 == [ st EXCEPT !.rng = torch_model.rng,
                            !.param_store = torch_model.param_store ]
    IN  IF cfg.inference = "ssvs"
        THEN PyroModel("HorseshoeSSVS", trial, st1)
        ELSE IF cfg.inference = "q_regr"
        THEN TorchModel(Quantiles, trial, st1)
        ELSE IF cfg.inference \in { "svi", "mcmc", "stub" }
        THEN PyroModel("BayesianModel", trial, st1)
        ELSE [ object |-> NoObject, rng |-> st1.rng, param_store |-> st1.param_store ]

\* torch_model = TorchModel(...), then model = HorseshoeSSVS(...) for "ssvs",
\* TorchModel(..., quantiles) for "q_regr", BayesianModel(torch_model, ...)
\* for every other method name.
build_model(cfg, trial, st) ==
    LET torch_model == TorchModel(<< >>, trial, st)
        st1 == [ st EXCEPT !.rng = torch_model.rng,
                            !.param_store = torch_model.param_store ]
    IN  IF cfg.inference = "ssvs"
        THEN PyroModel("HorseshoeSSVS", trial, st1)
        ELSE IF cfg.inference = "q_regr"
        THEN TorchModel(Quantiles, trial, st1)
        ELSE PyroModel("BayesianModel", trial, st1)

\* Mutant of clear_param_store: the store is left as it is.
clear_param_storeNoop(store) == store

\* pyro.clear_param_store()
clear_param_store(store) == {}

\* device != 'cpu': device is a torch.device and 'cpu' a str. A torch.device
\* is equal to torch.device objects only, so the two differ for every device.
device_ne_str(d, str) == TRUE

\* Mutant of build_guide: the store is cleared after the guide is built.
build_guideThenClear(cfg, trial, st) ==
    [ AutoGuide(IF cfg.dim_reduction THEN "AutoMultivariateNormal"
                ELSE "AutoLowRankMultivariateNormal", trial, st)
      EXCEPT !.param_store = {} ]

\* guide = AutoMultivariateNormal(...) if config.dim_reduction, else
\* AutoLowRankMultivariateNormal(..., rank=config.rank)
build_guide(cfg, trial, st) ==
    IF cfg.dim_reduction
    THEN AutoGuide("AutoMultivariateNormal", trial, st)
    ELSE AutoGuide("AutoLowRankMultivariateNormal", trial, st)

\* Mutant of ExtractFrom: no key has a default, a missing key is a KeyError.
RECURSIVE ExtractFromStrict(_, _, _)
ExtractFromStrict(ls, diag, i) ==
    IF i > Len(ExtractOrder)
    THEN [ lists |-> ls, raised |-> FALSE, key |-> "" ]
    ELSE LET k == ExtractOrder[i]
         IN  IF k \in DOMAIN diag
             THEN ExtractFromStrict([ ls EXCEPT ![ListOf[k]] = Append(@, diag[k]) ],
                                    diag, i + 1)
             ELSE [ lists |-> ls, raised |-> TRUE, key |-> k ]

\* Mutant of ExtractFrom: for a missing key with a default nothing is appended.
RECURSIVE ExtractFromSkip(_, _, _)
ExtractFromSkip(ls, diag, i) ==
    IF i > Len(ExtractOrder)
    THEN [ lists |-> ls, raised |-> FALSE, key |-> "" ]
    ELSE LET k == ExtractOrder[i]
         IN  IF k \in DOMAIN diag
             THEN ExtractFromSkip([ ls EXCEPT ![ListOf[k]] = Append(@, diag[k]) ],
                                  diag, i + 1)
             ELSE IF k \in Defaulted
             THEN ExtractFromSkip(ls, diag, i + 1)
             ELSE [ lists |-> ls, raised |-> TRUE, key |-> k ]

\* Lines 109-134 from the i-th key on: diagnostics[key] of a missing key is a
\* KeyError, except under "if key in diagnostics.keys()", where 0 is appended.
RECURSIVE ExtractFrom(_, _, _)
ExtractFrom(ls, diag, i) ==
    IF i > Len(ExtractOrder)
    THEN [ lists |-> ls, raised |-> FALSE, key |-> "" ]
    ELSE LET k == ExtractOrder[i]
         IN  IF k \in DOMAIN diag
             THEN ExtractFrom([ ls EXCEPT ![ListOf[k]] = Append(@, diag[k]) ],
                              diag, i + 1)
             ELSE IF k \in Defaulted
             THEN ExtractFrom([ ls EXCEPT ![ListOf[k]] = Append(@, 0) ],
                              diag, i + 1)
             ELSE [ lists |-> ls, raised |-> TRUE, key |-> k ]

SetRngSeed ==
    /\ pc = "for"
    /\ s < config.seed
    /\ rng' = set_rng_seed(s)
    /\ trace' = << "set_rng_seed" >>
    /\ pc' = "model"
    /\ UNCHANGED << config, hyperparams, device, default_tensor_type,
                    backend, fs_dirs, fs_files, bundle, s,
                    param_store, model, guide, diagnostics, lists, agg,
                    wandb_log, xlsx, error, returned, run, computed, saved,
                    obtained >>

BuildModel ==
    /\ pc = "model"
    /\ LET r == build_model(config, s,
                           [ rng |-> rng, param_store |-> param_store,
                             device |-> device,
                             default_tensor_type |-> default_tensor_type ])
       IN  /\ model' = r.object
           /\ rng' = r.rng
           /\ param_store' = r.param_store
    /\ trace' = Append(trace, "model")
    /\ pc' = "clear"
    /\ UNCHANGED << config, hyperparams, device, default_tensor_type,
                    backend, fs_dirs, fs_files, bundle, s,
                    guide, diagnostics, lists, agg, wandb_log, xlsx, error,
                    returned, run, computed, saved, obtained >>

ClearParamStore ==
    /\ pc = "clear"
    /\ param_store' = clear_param_store(param_store)
    /\ trace' = Append(trace, "clear_param_store")
    /\ pc' = "guide"
    /\ UNCHANGED << config, hyperparams, device, default_tensor_type,
                    backend, fs_dirs, fs_files, bundle, s,
                    rng, model, guide, diagnostics, lists, agg, wandb_log, xlsx,
                    error, returned, run, computed, saved, obtained >>

\* if device != 'cpu': torch.set_default_tensor_type('torch.cuda.FloatTensor'),
\* then the guide.
BuildGuide ==
    /\ pc = "guide"
    /\ LET tensor_type == IF device_ne_str(device, "cpu")
                          THEN "torch.cuda.FloatTensor" ELSE default_tensor_type
           r == build_guide(config, s,
                            [ rng |-> rng, param_store |-> param_store,
                              device |-> device,
                              default_tensor_type |-> tensor_type ])
       IN  /\ default_tensor_type' = tensor_type
           /\ guide' = r.object
           /\ rng' = r.rng
           /\ param_store' = r.param_store
    /\ trace' = Append(trace, "guide")
    /\ pc' = "inference"
    /\ UNCHANGED << config, hyperparams, device,
                    backend, fs_dirs, fs_files, bundle, s,
                    model, diagnostics, lists, agg, wandb_log, xlsx, error,
                    returned, run, computed, saved, obtained >>

\* Mutant of Inference: the exception of a trial is caught and the loop goes
\* on with the next trial.
InferenceCaught ==
    /\ pc = "inference"
    /\ LET r == inference(config, backend, Observed)
       IN  IF r.raised
           THEN /\ error' = r.error
                /\ pc' = "for"
                /\ s' = s + 1
                /\ UNCHANGED << diagnostics, rng, param_store, returned >>
           ELSE /\ diagnostics' = r.diagnostics
                /\ rng' = r.rng
                /\ param_store' = r.param_store
                /\ returned' = Append(returned, r.diagnostics)
                /\ pc' = "extract"
                /\ UNCHANGED << error, s >>
    /\ trace' = Append(trace, "inference")
    /\ UNCHANGED << config, hyperparams, device, default_tensor_type,
                    backend, fs_dirs, fs_files, bundle,
                    model, guide, lists, agg, wandb_log, xlsx, run, computed,
                    saved, obtained >>

\* predictive, diagnostics = inference(...): an exception is not caught.
Inference ==
    /\ pc = "inference"
    /\ LET r == inference(config, backend, Observed)
       IN  IF r.raised
           THEN /\ error' = r.error
                /\ pc' = "aborted"
                /\ UNCHANGED << diagnostics, rng, param_store, returned >>
           ELSE /\ diagnostics' = r.diagnostics
                /\ rng' = r.rng
                /\ param_store' = r.param_store
                /\ returned' = Append(returned, r.diagnostics)
                /\ pc' = "extract"
                /\ UNCHANGED error
    /\ trace' = Append(trace, "inference")
    /\ UNCHANGED << config, hyperparams, device, default_tensor_type,
                    backend, fs_dirs, fs_files, bundle, s,
                    model, guide, lists, agg, wandb_log, xlsx, run, computed,
                    saved, obtained >>

Extract ==
    /\ pc = "extract"
    /\ LET r == ExtractFrom(lists, diagnostics, 1)
       IN  /\ lists' = r.lists
           /\ IF r.raised
              THEN /\ error' = [ type |-> "KeyError", detail |-> r.key, trial |-> s ]
                   /\ pc' = "aborted"
                   /\ s' = s
              ELSE /\ s' = s + 1
                   /\ pc' = "for"
                   /\ UNCHANGED error
    /\ trace' = Append(trace, "extract")
    /\ UNCHANGED << config, hyperparams, device, default_tensor_type,
                    backend, fs_dirs, fs_files, bundle, rng,
                    param_store, model, guide, diagnostics, agg, wandb_log, xlsx,
                    returned, run, computed, saved, obtained >>

(***************************************************************************)
(* code/experiments.py: aggregation (lines 138-165)                        *)
(***************************************************************************)
RECURSIVE SumSeq(_)
SumSeq(v) == IF v = << >> THEN 0 ELSE Head(v) + SumSeq(Tail(v))

\* The largest r in lo..hi with r * r <= n.
RECURSIVE Bisect(_, _, _)
Bisect(lo, hi, n) ==
    IF lo >= hi THEN lo
    ELSE LET mid == (lo + hi + 1) \div 2
         IN  IF mid * mid <= n THEN Bisect(mid, hi, n) ELSE Bisect(lo, mid - 1, n)

\* np.sqrt on the fixed-point numbers (46340 is the largest root of an int32)
Sqrt(n) == Bisect(0, IF n < 46340 THEN n ELSE 46340, n)

\* np.asarray(v).mean(): the sum over the number of entries
mean(v) == (SumSeq(v) * Scale) \div Len(v)

\* Mutant of std: the sample standard deviation (ddof = 1), nan for one entry.
stdSample(v) ==
    LET m  == mean(v)
        sq == [ i \in DOMAIN v |-> (v[i] * Scale - m) * (v[i] * Scale - m) ]
    IN  IF Len(v) = 1 THEN 0 - 1 ELSE Sqrt(SumSeq(sq) \div (Len(v) - 1))

\* np.asarray(v).std(): ddof = 0, the root of the mean of the squared
\* deviations from the mean
std(v) ==
    LET m  == mean(v)
        sq == [ i \in DOMAIN v |-> (v[i] * Scale - m) * (v[i] * Scale - m) ]
    IN  Sqrt(SumSeq(sq) \div Len(v))

\* A name of agg that holds no value yet.
Unset == 0 - 1

AggNames ==
    { "m_time", "s_time", "m_inf_time", "s_inf_time", "m_cal", "s_cal",
      "m_new_cal", "s_new_cal", "m_width", "s_width", "m_new_width",
      "s_new_width", "m_e_crps", "s_e_crps", "m_crps", "s_crps", "m_new_crps",
      "s_new_crps", "m_mse", "s_mse", "m_new_mse", "s_new_mse", "m_cov",
      "s_cov", "m_new_cov", "s_new_cov", "m_loss", "s_loss" }

NoAgg == [ a \in AggNames |-> Unset ]

\* m_time = np.asarray(train_times).mean() ... s_loss = np.asarray(losses).std()
aggregate(ls) ==
    [
      m_time |-> mean(ls.train_times),
      s_time |-> std(ls.train_times),
      m_inf_time |-> mean(ls.inf_times),
      s_inf_time |-> std(ls.inf_times),
      m_cal |-> mean(ls.cal_errors),
      s_cal |-> std(ls.cal_errors),
      m_new_cal |-> mean(ls.new_cal_errors),
      s_new_cal |-> std(ls.new_cal_errors),
      m_width |-> mean(ls.widths),
      s_width |-> std(ls.widths),
      m_new_width |-> mean(ls.new_widths),
      s_new_width |-> std(ls.new_widths),
      m_e_crps |-> mean(ls.e_crpss),
      s_e_crps |-> std(ls.e_crpss),
      m_crps |-> mean(ls.crpss),
      s_crps |-> std(ls.crpss),
      m_new_crps |-> mean(ls.new_crpss),
      s_new_crps |-> std(ls.new_crpss),
      m_mse |-> mean(ls.mses),
      s_mse |-> std(ls.mses),
      m_new_mse |-> mean(ls.new_mses),
      s_new_mse |-> std(ls.new_mses),
      m_cov |-> mean(ls.coverages),
      s_cov |-> std(ls.coverages),
      m_new_cov |-> mean(ls.new_coverages),
      s_new_cov |-> std(ls.new_coverages),
      m_loss |-> mean(ls.losses),
      s_loss |-> std(ls.losses) ]

Aggregate ==
    /\ pc = "for"
    /\ s >= config.seed
    /\ agg' = aggregate(lists)
    /\ pc' = "log"
    /\ UNCHANGED << config, hyperparams, device, default_tensor_type,
                    backend, fs_dirs, fs_files, bundle, s,
                    rng, param_store, model, guide, diagnostics, lists,
                    wandb_log, xlsx, error, trace, returned, run, computed,
                    saved, obtained >>

(***************************************************************************)
(* code/experiments.py: wandb.log (lines 168-193)                          *)
(***************************************************************************)
\* wandb.log({"m_train_time": m_time}) ... wandb.log({"m_final_loss": s_loss})
log_calls(a) ==
    <<
       [ name |-> "m_train_time", value |-> a.m_time ],
       [ name |-> "s_train_time", value |-> a.s_time ],
       [ name |-> "m_cal_error", value |-> a.m_cal ],
       [ name |-> "s_cal_error", value |-> a.s_cal ],
       [ name |-> "m_new_cal_error", value |-> a.m_new_cal ],
       [ name |-> "s_new_cal_error", value |-> a.s_new_cal ],
       [ name |-> "m_e_crps", value |-> a.m_e_crps ],
       [ name |-> "s_e_crps", value |-> a.s_e_crps ],
       [ name |-> "m_crps", value |-> a.m_crps ],
       [ name |-> "s_crps", value |-> a.s_crps ],
       [ name |-> "m_new_crps", value |-> a.m_new_crps ],
       [ name |-> "s_new_crps", value |-> a.s_new_crps ],
       [ name |-> "m_mse", value |-> a.m_mse ],
       [ name |-> "s_mse", value |-> a.s_mse ],
       [ name |-> "m_new_mse", value |-> a.m_new_mse ],
       [ name |-> "s_new_mse", value |-> a.s_new_mse ],
       [ name |-> "m_width", value |-> a.m_width ],
       [ name |-> "s_width", value |-> a.s_width ],
       [ name |-> "m_new_width", value |-> a.m_new_width ],
       [ name |-> "s_new_width", value |-> a.s_new_width ],
       [ name |-> "m_cov", value |-> a.m_cov ],
       [ name |-> "s_cov", value |-> a.s_cov ],
       [ name |-> "m_new_cov", value |-> a.m_new_cov ],
       [ name |-> "s_new_cov", value |-> a.s_new_cov ],
       [ name |-> "m_final_loss", value |-> a.m_loss ],
       [ name |-> "m_final_loss", value |-> a.s_loss ] >>

LogScalars ==
    /\ pc = "log"
    /\ wandb_log' = wandb_log \o log_calls(agg)
    /\ pc' = "export"
    /\ UNCHANGED << config, hyperparams, device, default_tensor_type,
                    backend, fs_dirs, fs_files, bundle, s,
                    rng, param_store, model, guide, diagnostics, lists, agg,
                    xlsx, error, trace, returned, run, computed, saved,
                    obtained >>

(***************************************************************************)
(* code/experiments.py: the spreadsheet (lines 196-206)                    *)
(***************************************************************************)
\* pd.DataFrame({"seed": range(config.seed), "train_times": train_times, ...})
data_frame(cfg, ls) ==
    [ seed |-> [ i \in 1..cfg.seed |-> i - 1 ],
      train_times |-> ls.train_times,
      inf_times |-> ls.inf_times,
      cal_errors |-> ls.cal_errors,
      new_cal_errors |-> ls.new_cal_errors,
      coverage |-> ls.coverages,
      new_coverage |-> ls.new_coverages,
      width |-> ls.widths,
      new_width |-> ls.new_widths,
      MSE |-> ls.mses,
      new_MSE |-> ls.new_mses,
      e_CRPS |-> ls.e_crpss,
      CRPS |-> ls.crpss,
      new_CRPS |-> ls.new_crpss,
      final_loss |-> ls.losses ]

\* sheet_name=f"sheet_{config.dataset}_{config.inference}"
sheet_name(cfg) == << "sheet", cfg.dataset, cfg.inference >>

NoSheets == [ n \in {} |-> << >> ]

\* ExcelWriter(mode="a") opens a workbook that exists; DataFrame wants columns
\* of one length.
Export ==
    /\ pc = "export"
    /\ \E workbook_exists \in BOOLEAN :
         IF ~config.print_results
         THEN /\ pc' = "done"
              /\ UNCHANGED << xlsx, error >>
         ELSE IF \E l \in ListNames : Len(lists[l]) # config.seed
         THEN /\ error' = [ type |-> "ValueError", detail |-> "DataFrame",
                            trial |-> -1 ]
              /\ pc' = "aborted"
              /\ UNCHANGED xlsx
         ELSE IF ~workbook_exists
         THEN /\ error' = [ type |-> "FileNotFoundError",
                            detail |-> "results.xlsx", trial |-> -1 ]
              /\ pc' = "aborted"
              /\ UNCHANGED xlsx
         ELSE /\ xlsx' = (sheet_name(config) :> data_frame(config, lists)) @@ xlsx
              /\ pc' = "done"
              /\ UNCHANGED error
    /\ UNCHANGED << config, hyperparams, device, default_tensor_type,
                    backend, fs_dirs, fs_files, bundle, s,
                    rng, param_store, model, guide, diagnostics, lists, agg,
                    wandb_log, trace, returned, run, computed, saved,
                    obtained >>

(***************************************************************************)
(* One run of the script                                                   *)
(***************************************************************************)
\* config.inference: the names with a backend and one without.
Methods == BackendMethods \cup { "bogus" }

Configs(datasets, methods, seeds, prints) ==
    [ dataset : datasets, dim_reduction : BOOLEAN, inference : methods,
      seed : seeds, print_results : prints ]

\* A backend: the value it reports in trial 0, the step from one trial to the
\* next, and the trial it raises in (MaxSeed: none).
Backends == [ base : 0..MaxVal, slope : { 0, 2 }, failAt : 0..MaxSeed ]

\* The state in which the script starts: nothing loaded, no trial run. The
\* cache file is absent, or holds what an earlier run saved, or is foreign.
Start(cfgs, units, backends) ==
    /\ config \in cfgs
    /\ hyperparams \in [ n_internal_units : units ]
    /\ device \in [ type : { "cuda", "cpu" } ]
    /\ default_tensor_type = "torch.FloatTensor"
    /\ backend \in backends
    /\ \E file \in { "absent", "cached", "foreign" } :
         LET path == file_path(config, hyperparams)
             r    == run_esn(config.dataset, config.dim_reduction,
                             hyperparams.n_internal_units)
         IN  /\ file = "cached" => ~r.raised
             /\ fs_files = CASE file = "absent"  -> [ q \in {} |-> << >> ]
                             [] file = "cached"  -> (path :> torch_save(r.value))
                             [] file = "foreign" ->
                                  (path :> ForeignFile(hyperparams.n_internal_units))
             /\ fs_dirs = IF file = "absent" THEN { << "ESN" >> }
                          ELSE mkdir_parents({}, path.dir)
    /\ pc = "start"
    /\ bundle = NoBundle
    /\ s = 0
    /\ rng = [ seed |-> 0 - 1, draws |-> 0 ]
    /\ param_store = {}
    /\ model = NoObject
    /\ guide = NoObject
    /\ diagnostics = [ k \in {} |-> 0 ]
    /\ lists = EmptyLists
    /\ agg = NoAgg
    /\ wandb_log = << >>
    /\ xlsx = NoSheets
    /\ error = NoError
    /\ trace = << >>
    /\ returned = << >>
    /\ run = 1
    /\ computed = [ q \in {} |-> 0 ]
    /\ saved = [ q \in {} |-> 0 ]
    /\ obtained = [ q \in {} |-> [ bundle |-> NoBundle, run |-> 0 ] ]

Init ==
    Start(Configs({ "acea" }, Methods, 1..MaxSeed, BOOLEAN),
          { MaxUnits }, Backends)

Next ==
    \/ Mkdir
    \/ LoadOrCompute
    \/ SetRngSeed
    \/ BuildModel
    \/ ClearParamStore
    \/ BuildGuide
    \/ Inference
    \/ Extract
    \/ Aggregate
    \/ LogScalars
    \/ Export

Spec == Init /\ [][Next]_vars

(***************************************************************************)
(* A sequence of runs of the script over one file system                   *)
(***************************************************************************)
\* Lines 61-206 of a run: they leave ./ESN/saved alone.
RunExperiment ==
    /\ pc = "for"
    /\ pc' = "done"
    /\ UNCHANGED << config, hyperparams, device, default_tensor_type,
                    backend, fs_dirs, fs_files, bundle, s,
                    rng, param_store, model, guide, diagnostics, lists, agg,
                    wandb_log, xlsx, error, trace, returned, run, computed,
                    saved, obtained >>

CacheConfigs ==
    Configs({ "acea", "spain", "other" }, { "q_regr" }, { 1 }, { TRUE })

\* The script is started again: a new process, the same file system.
NewRun ==
    /\ pc \in { "done", "aborted" }
    /\ run < MaxRuns
    /\ run' = run + 1
    /\ config' \in CacheConfigs
    /\ hyperparams' \in [ n_internal_units : 1..MaxUnits ]
    /\ bundle' = NoBundle
    /\ error' = NoError
    /\ pc' = "start"
    /\ default_tensor_type' = "torch.FloatTensor"
    /\ UNCHANGED << device, backend, fs_dirs, fs_files, s, rng, param_store, model,
                    guide, diagnostics, lists, agg, wandb_log, xlsx, trace,
                    returned, computed, saved, obtained >>

InitCache ==
    Start(CacheConfigs, 1..MaxUnits, { [ base |-> 0, slope |-> 0, failAt |-> MaxSeed ] })

NextCache ==
    \/ Mkdir
    \/ LoadOrCompute
    \/ RunExperiment
    \/ NewRun

SpecCache == InitCache /\ [][NextCache]_vars

(***************************************************************************)
(* Properties                                                              *)
(***************************************************************************)
\* The trial loop ran all its trials.
LoopCompleted == pc \in { "for", "log", "export", "done" } /\ s >= config.seed

\* What lines 109-134 append for key k from a diagnostics record d.
ValueOf(d, k) == IF k \in DOMAIN d THEN d[k] ELSE 0

AllZero(v) == \A i \in DOMAIN v : v[i] = 0

IsPrefix(a, b) == Len(a) <= Len(b) /\ a = SubSeq(b, 1, Len(a))

\* C1 (as claimed): for every key of the vocabulary that the backend never
\* produces, the trial loop is not stopped (no KeyError) and every entry of
\* the key's list is 0.
C1_EveryAbsentKeyIsZero ==
    \A k \in Keys :
        (config.inference \in BackendMethods /\ k \notin NativeKeys(config.inference))
        => /\ error.type # "KeyError"
           /\ AllZero(lists[ListOf[k]])

\* C1 (amended): the absence of final_loss, inference_time or e_crps does not
\* stop the loop, every entry of that key's list is 0, and the list has
\* config.seed entries once the loop completed. The absence of any other key
\* is a KeyError in trial 0: the loop does not complete and the key's list
\* stays empty.
C1_OnlyThreeKeysDefaulted ==
    \A k \in Keys :
        (config.inference \in BackendMethods /\ k \notin NativeKeys(config.inference))
        => IF k \in Defaulted
           THEN /\ AllZero(lists[ListOf[k]])
                /\ error.type = "KeyError" => error.detail # k
                /\ (error.type # "KeyError" /\ pc # "extract")
                       => Len(lists[ListOf[k]]) = Len(returned)
                /\ LoopCompleted => Len(lists[ListOf[k]]) = config.seed
           ELSE /\ lists[ListOf[k]] = << >>
                /\ ~LoopCompleted
                /\ s = 0
                /\ (returned # << >> /\ pc # "extract")
                       => (pc = "aborted" /\ error.type = "KeyError" /\ error.trial = 0)

\* A backend without final_loss and inference_time ran at least two trials
\* to the end.
C1_Witness ==
    /\ LoopCompleted
    /\ config.seed >= 2
    /\ config.inference = "mcmc"
    /\ lists.losses = [ i \in 1..config.seed |-> 0 ]
    /\ lists.inf_times = [ i \in 1..config.seed |-> 0 ]

\* C2: unless a KeyError stopped a trial, all 14 lists have one entry per
\* finished trial, entry i is what trial i extracted, and when the loop has
\* completed that is config.seed entries.
C2_ListsGrowInLockStep ==
    error.type # "KeyError"
    => /\ \A k \in Keys :
            LET v == lists[ListOf[k]]
            IN  /\ Len(v) = s
                /\ \A i \in 1..s : v[i] = ValueOf(returned[i], k)
       /\ s <= config.seed
       /\ pc \in { "log", "export", "done" } => s = config.seed

\* Three trials of the backend without e_crps are done.
C2_Witness ==
    /\ pc = "log"
    /\ config.inference = "q_regr"
    /\ config.seed = 3
    /\ \A l \in ListNames : Len(lists[l]) = 3
    /\ backend.slope # 0

\* The statements of a trial before the dispatcher returns, in the order of
\* the code.
TrialOrder ==
    << "set_rng_seed", "model", "clear_param_store", "guide", "inference", "extract" >>

\* C3 (as claimed): with a method name no backend exists for, no trial is
\* started, no model or guide is built and the parameter store is untouched.
C3_UnknownMethodFailsBeforeAnyTrial ==
    config.inference \notin BackendMethods
    => /\ trace = << >>
       /\ rng.seed < 0
       /\ model = NoObject
       /\ guide = NoObject
       /\ param_store = {}

\* C3 (amended): with a method name no backend exists for, the script raises
\* nothing of its own: trial 0 seeds the generator, builds the default
\* BayesianModel, clears the parameter store and builds the guide, and only
\* then calls the dispatcher; an error can come from that call alone.
C3_UnknownMethodReachesDispatcher ==
    config.inference \notin BackendMethods
    => /\ pc \in { "start", "cache", "for", "model", "clear", "guide", "inference" }
            => error = NoError
       /\ pc = "clear" => model.class = "BayesianModel"
       /\ (pc = "inference" \/ error # NoError)
            => /\ s = 0
               /\ rng.seed = 0
               /\ IsPrefix(SubSeq(TrialOrder, 1, 4), trace)
               /\ model = [ class |-> "BayesianModel", quantiles |-> << >>,
                            trial |-> 0, device |-> device ]
               /\ guide.class \in { "AutoMultivariateNormal",
                                    "AutoLowRankMultivariateNormal" }
       /\ error # NoError => IsPrefix(SubSeq(TrialOrder, 1, 5), trace)

\* The dispatcher is about to be called with the unknown name.
C3_Witness ==
    /\ config.inference = "bogus"
    /\ pc = "inference"
    /\ model.class = "BayesianModel"
    /\ guide.class = "AutoLowRankMultivariateNormal"
    /\ trace = SubSeq(TrialOrder, 1, 4)

\* C4: once the dispatcher has raised in trial k the run is over: no later
\* trial is started, no list holds a value for trial k, and nothing is
\* aggregated, logged or exported.
C4_DispatcherErrorAbortsRun ==
    (error.type \in { "BackendError", "ValueError" } /\ error.trial >= 0)
    => /\ pc = "aborted"
       /\ s = error.trial
       /\ rng.seed = error.trial
       /\ \A l \in ListNames : Len(lists[l]) = error.trial
       /\ Len(returned) = error.trial
       /\ agg = NoAgg
       /\ wandb_log = << >>
       /\ xlsx = NoSheets

\* The backend raised in the second of three trials.
C4_Witness ==
    /\ error.type = "BackendError"
    /\ error.trial = 1
    /\ config.seed = 3
    /\ pc = "aborted"
    /\ Len(lists.train_times) = 1

\* The names of agg that hold the mean and the standard deviation of each list.
AggOf ==
    [
      train_times |-> [ m |-> "m_time", s |-> "s_time" ],
      inf_times |-> [ m |-> "m_inf_time", s |-> "s_inf_time" ],
      cal_errors |-> [ m |-> "m_cal", s |-> "s_cal" ],
      new_cal_errors |-> [ m |-> "m_new_cal", s |-> "s_new_cal" ],
      widths |-> [ m |-> "m_width", s |-> "s_width" ],
      new_widths |-> [ m |-> "m_new_width", s |-> "s_new_width" ],
      e_crpss |-> [ m |-> "m_e_crps", s |-> "s_e_crps" ],
      crpss |-> [ m |-> "m_crps", s |-> "s_crps" ],
      new_crpss |-> [ m |-> "m_new_crps", s |-> "s_new_crps" ],
      mses |-> [ m |-> "m_mse", s |-> "s_mse" ],
      new_mses |-> [ m |-> "m_new_mse", s |-> "s_new_mse" ],
      coverages |-> [ m |-> "m_cov", s |-> "s_cov" ],
      new_coverages |-> [ m |-> "m_new_cov", s |-> "s_new_cov" ],
      losses |-> [ m |-> "m_loss", s |-> "s_loss" ] ]

\* Entries of the log with a given name.
Logged(name) == { i \in DOMAIN wandb_log : wandb_log[i].name = name }

\* C5 (as claimed): after the log calls every aggregate has been logged
\* exactly once, the mean and the standard deviation of a list under two
\* names of their own, and no name twice.
C5_EveryAggregateLoggedOnce ==
    pc \in { "export", "done" }
    => /\ Len(wandb_log) = Cardinality(AggNames)
       /\ \A i, j \in DOMAIN wandb_log :
            wandb_log[i].name = wandb_log[j].name => i = j
       /\ \A l \in ListNames :
            \E i, j \in DOMAIN wandb_log :
                /\ wandb_log[i].name # wandb_log[j].name
                /\ wandb_log[i].value = agg[AggOf[l].m]
                /\ wandb_log[j].value = agg[AggOf[l].s]
       /\ Cardinality(Logged("m_final_loss")) = 1

\* Squared deviations of the entries from a fixed-point mean.
SquaredDeviations(v, m) ==
    SumSeq([ i \in DOMAIN v |-> (v[i] * Scale - m) * (v[i] * Scale - m) ])

CurrentPath == file_path(config, hyperparams)

\* C7: over a sequence of runs run_esn returns at most once per cache file
\* and the file is written at most once; a run that got its bundle holds the
\* bundle of the first run with that file, which is what the file holds; and
\* the directory exists whenever the file is read or written.
C7_ComputedAtMostOnce ==
    /\ \A p \in DOMAIN computed : computed[p] = 1 /\ p \in DOMAIN saved
    /\ \A p \in DOMAIN saved : saved[p] = 1 /\ p \in DOMAIN computed
    /\ \A p \in DOMAIN fs_files : p.dir \in fs_dirs
    /\ \A p \in DOMAIN obtained :
          /\ p \in DOMAIN fs_files
          /\ torch_load(fs_files[p]) = obtained[p].bundle
          /\ p \in DOMAIN computed
               => obtained[p].bundle =
                    run_esn(p.dir[3], p.dir[4] = "True", p.units).value
    /\ pc = "cache" => save_path(config) \in fs_dirs
    /\ pc \in { "for", "done" }
          => /\ CurrentPath \in DOMAIN obtained
             /\ bundle = obtained[CurrentPath].bundle
             /\ obtained[CurrentPath].run <= run

\* A later run loaded the file that an earlier run computed and saved.
C7_Witness ==
    /\ pc = "for"
    /\ CurrentPath \in DOMAIN computed
    /\ computed[CurrentPath] = 1
    /\ saved[CurrentPath] = 1
    /\ obtained[CurrentPath].run = 1
    /\ run = 3
    /\ bundle = obtained[CurrentPath].bundle

\* What the backend of trial i observes, from i and the configuration alone.
ExpectedObserved(cfg, dev, i) ==
    [ rng |-> [ seed |-> i, draws |-> IF cfg.inference = "q_regr" THEN 2 ELSE 1 ],
      param_store |-> { [ name |-> "guide.loc", value |-> "init" ] },
      default_tensor_type |-> "torch.cuda.FloatTensor",
      model |->
        [ class |-> IF cfg.inference = "ssvs" THEN "HorseshoeSSVS"
                    ELSE IF cfg.inference = "q_regr" THEN "TorchModel"
                    ELSE "BayesianModel",
          quantiles |-> IF cfg.inference = "q_regr" THEN Quantiles ELSE << >>,
          trial |-> i,
          device |-> dev ],
      guide |->
        [ class |-> IF cfg.dim_reduction THEN "AutoMultivariateNormal"
                    ELSE "AutoLowRankMultivariateNormal",
          quantiles |-> << >>,
          trial |-> i,
          device |-> [ type |-> "cuda" ] ] ]

\* C8: what the backend observes in trial i (generator, parameter store,
\* model, guide) is a function of i and the configuration, so every entry i
\* of every list is a function of i, the configuration and the backend: two
\* runs with the same ones give the same lists.
C8_TrialsAreIndependent ==
    /\ pc = "inference" => Observed = ExpectedObserved(config, device, s)
    /\ \A i \in DOMAIN returned :
          returned[i] = inference(config, backend,
                                  ExpectedObserved(config, device, i - 1)).diagnostics
    /\ error.type # "KeyError"
          => \A k \in Keys : \A i \in DOMAIN lists[ListOf[k]] :
                lists[ListOf[k]][i] =
                    ValueOf(inference(config, backend,
                                      ExpectedObserved(config, device, i - 1)).diagnostics, k)

\* The third trial calls the backend after two trials fitted the store.
C8_Witness ==
    /\ pc = "inference"
    /\ s = 2
    /\ Len(returned) = 2
    /\ Observed = ExpectedObserved(config, device, 2)
    /\ backend.slope # 0

\* C9 (as claimed): a bundle whose targets and embeddings differ in rows
\* within a split never leaves the load-or-compute step.
C9_MisalignedBundleRejected ==
    pc \notin { "start", "cache" } => (bundle = NoBundle \/ Aligned(bundle))

\* C9 (amended): the load-or-compute step checks no row counts and raises no
\* shape error: the run goes on with exactly the six arrays the cache file
\* holds, whatever their row counts, none truncated.
C9_BundleIsWhatTheFileHolds ==
    /\ pc \in { "start", "cache" } => bundle = NoBundle
    /\ pc \notin { "start", "cache" }
          => /\ isfile(fs_files, CurrentPath)
             /\ torch_save(bundle) = fs_files[CurrentPath]
             /\ error.trial >= 0 \/ error.type \in { "none", "FileNotFoundError" }

\* A bundle with 2 train targets and 3 train embedding rows is in the trial
\* loop, at the call of the dispatcher.
C9_Witness ==
    /\ pc = "inference"
    /\ bundle.Ytr.rows = 2
    /\ bundle.train_embedding.rows = 3
    /\ ~Aligned(bundle)

\* The order of a trial as claimed: the store is cleared before the model
\* is built.
ClaimedOrder ==
    << "set_rng_seed", "clear_param_store", "model", "guide", "inference", "extract" >>

\* C10 (as claimed): a trial seeds the generator, clears the store, builds
\* the model, builds the guide and calls the dispatcher, so the store is
\* empty when the model is built and nothing the model or the guide
\* registered is wiped before the dispatcher is called.
C10_StoreClearedBeforeModel ==
    /\ IsPrefix(trace, ClaimedOrder)
    /\ pc = "model" => param_store = {}
    /\ pc = "inference"
          => /\ "guide.loc" \in { p.name : p \in param_store }
             /\ model.class # "TorchModel"
                   => "model.weight" \in { p.name : p \in param_store }

\* C10 (amended): a trial seeds the generator, builds the model, clears the
\* store, builds the guide and calls the dispatcher, so the store is empty
\* when the guide is built and nothing the guide registered is wiped before
\* the dispatcher is called.
C10_StoreClearedBeforeGuide ==
    /\ IsPrefix(trace, TrialOrder)
    /\ pc = "model" => trace = SubSeq(TrialOrder, 1, 1)
    /\ pc = "clear" => trace = SubSeq(TrialOrder, 1, 2)
    /\ pc = "guide" => (trace = SubSeq(TrialOrder, 1, 3) /\ param_store = {})
    /\ pc = "inference"
          => /\ trace = SubSeq(TrialOrder, 1, 4)
             /\ [ name |-> "guide.loc", value |-> "init" ] \in param_store

\* In the second trial the store, which held the first trial's fitted
\* values while the model was built, is empty when the guide is built.
C10_Witness ==
    /\ pc = "guide"
    /\ s = 1
    /\ param_store = {}
    /\ trace = SubSeq(TrialOrder, 1, 3)
    /\ model.trial = 1

====
